---- MODULE Spec2Model ----
(***************************************************************************)
(* A model of ebpy: scoped guards around Blender's global editing state    *)
(* (_context.py), the mesh editing session (mesh_session.py) and the two   *)
(* move-geometry backends (mesh/ops.py, mesh/data_ops.py, mesh_ops.py).    *)
(*                                                                         *)
(* The host (bpy) is modelled by the slots the library reads and writes:   *)
(* the interaction mode, the active object, the selected objects, the      *)
(* persisted vertex buffer of the mesh and, while the host is in edit      *)
(* mode, the live edit buffer of the mesh.                                 *)
(***************************************************************************)
EXTENDS Integers, Sequences, FiniteSets, TLC

\* Number of vertices of the mesh object.
NVerts == 2
\* Number of library calls in one behaviour.
MaxCalls == 2

(***************************************************************************)
(* The state                                                               *)
(***************************************************************************)
VARIABLES
    host,       \* the host's slots: mode, active, selected, co, edit
    pc,         \* "idle", "called" (a call is pending), "returned"
    call,       \* the arguments of the pending or the returned call
    pre,        \* the host's slots when the call was made
    res,        \* the returned call's error, host requests and route
    ncalls,     \* calls made so far
    autoRoute   \* the route of the latest earlier call with backend AUTO

vars == <<host, pc, call, pre, res, ncalls, autoRoute>>

(***************************************************************************)
(* The scene                                                               *)
(***************************************************************************)
None == "None"
\* bpy.data.objects, in the order the host lists them
ObjOrder == <<"Cube", "Lamp">>
Objects == {ObjOrder[i] : i \in 1..Len(ObjOrder)}
ObjType(o) == IF o = "Cube" THEN "MESH" ELSE "LIGHT"
MeshObjects == {o \in Objects : ObjType(o) = "MESH"}

(***************************************************************************)
(* mathutils.Vector, on integer vectors.  The directions the model draws   *)
(* are axis aligned, so that length and normalisation are exact.           *)
(***************************************************************************)
Vec(x, y, z) == <<x, y, z>>
ZeroVec == Vec(0, 0, 0)
VAdd(a, b) == Vec(a[1] + b[1], a[2] + b[2], a[3] + b[3])
VScale(a, k) == Vec(a[1] * k, a[2] * k, a[3] * k)
VDiv(a, k) == Vec(a[1] \div k, a[2] \div k, a[3] \div k)
Abs(x) == IF x < 0 THEN -x ELSE x
SqLen(a) == a[1] * a[1] + a[2] * a[2] + a[3] * a[3]
\* Vector.length
Length(a) == CHOOSE r \in 0..(Abs(a[1]) + Abs(a[2]) + Abs(a[3])) : r * r = SqLen(a)
\* Vector.normalized()
Normalized(a) == VDiv(a, Length(a))
\* Matrix @ Vector for a 3x3 matrix given by its rows
MatVec(m, v) ==
    Vec(m[1][1] * v[1] + m[1][2] * v[2] + m[1][3] * v[3],
        m[2][1] * v[1] + m[2][2] * v[2] + m[2][3] * v[3],
        m[3][1] * v[1] + m[3][2] * v[2] + m[3][3] * v[3])
Transpose(m) ==
    << <<m[1][1], m[2][1], m[3][1]>>,
       <<m[1][2], m[2][2], m[3][2]>>,
       <<m[1][3], m[2][3], m[3][3]>> >>

\* The world transforms the model draws for the mesh: a quarter turn about
\* Z, a uniform scale and a translation.
RotZ90 == << <<0, -1, 0>>, <<1, 0, 0>>, <<0, 0, 1>> >>
Xform(scale, loc) == [rot |-> RotZ90, scale |-> scale, loc |-> loc]
DefaultXform == Xform(2, Vec(5, 0, 0))
\* the same rotation with another translation and with another scale
Transforms == {DefaultXform, Xform(2, ZeroVec), Xform(1, Vec(5, 0, 0))}

\* obj.matrix_world, as the host reports it during the call
matrix_world(h, o) == h.xform

\* m.inverted_safe().to_3x3() @ delta: the upper-left 3x3 block of the
\* inverse of (translate * rotate * scale) is the transposed rotation
\* divided by the scale.
WorldToLocal(m, delta) == VDiv(MatVec(Transpose(m.rot), delta), m.scale)

\* str.upper() on the tokens the model draws
Upper(s) ==
    CASE s = "local" -> "LOCAL"
      [] s = "world" -> "WORLD"
      [] s = "view" -> "VIEW"
      [] s = "edit" -> "EDIT"
      [] s = "object" -> "OBJECT"
      [] OTHER -> s

(***************************************************************************)
(* The state of one call in progress: the host slots, the session's        *)
(* fields, the error in flight and the host requests issued so far.        *)
(*   mode, active, selected  the host's mode and selection slots           *)
(*   co      persisted vertex buffer of the mesh (me.vertices)             *)
(*   edit    live edit buffer of the mesh; <<>> outside edit mode          *)
(*   bm      the session's _bm: "none", "live" (from_edit_mesh) or "temp"  *)
(*   bmco    vertex positions of a temporary BMesh                         *)
(*   err     the exception in flight, "none" when there is none            *)
(*   log     the host requests issued, in order                            *)
(*   at      the number of requests issued when the error in flight was    *)
(*           raised                                                        *)
(*   route   the strategy the call entered: "none", "fast" or "bmesh"      *)
(*   xform   the world transform the host reports for the mesh             *)
(*   fault   the host request that fails in this call ("none": the host    *)
(*           honours every request)                                        *)
(***************************************************************************)
Begin(w, fault, xform) ==
    [mode |-> w.mode, active |-> w.active, selected |-> w.selected,
     co |-> w.co, edit |-> w.edit,
     bm |-> "none", bmco |-> <<>>, err |-> "none", log |-> <<>>, at |-> 0,
     route |-> "none", fault |-> fault, xform |-> xform]

\* the host slots of a call state
World(h) ==
    [mode |-> h.mode, active |-> h.active, selected |-> h.selected,
     co |-> h.co, edit |-> h.edit]

Emit(h, e, a) == [h EXCEPT !.log = Append(@, [ev |-> e, arg |-> a])]
Raise(h, e) == IF e = "none" THEN h ELSE [h EXCEPT !.err = e, !.at = Len(h.log)]

(***************************************************************************)
(* Host primitives                                                         *)
(***************************************************************************)
\* obj.select_set(val)
select_set(h, o, val) ==
    [Emit(h, IF val THEN "select" ELSE "deselect", o)
        EXCEPT !.selected = IF val THEN @ \cup {o} ELSE @ \ {o}]

\* view_layer.objects.active = obj
set_objects_active(h, o) == [Emit(h, "active", o) EXCEPT !.active = o]

\* bpy.ops.object.mode_set(mode=m), requested in the given phase of a guard.
\* Entering edit mode opens the live edit buffer on the persisted one;
\* leaving it flushes the live buffer to the persisted one.
mode_set(h, m, phase) ==
    LET h1 == Emit(h, "mode_set", m) IN
    IF h.fault = phase \/ (m = "EDIT" /\ h.active \notin MeshObjects)
    THEN Raise(h1, "RuntimeError")
    ELSE IF m = "EDIT"
    THEN [h1 EXCEPT !.mode = "EDIT_MESH",
                    !.edit = IF h.mode = "EDIT_MESH" THEN @ ELSE h.co]
    ELSE [h1 EXCEPT !.mode = "OBJECT",
                    !.co = IF h.mode = "EDIT_MESH" THEN h.edit ELSE @,
                    !.edit = <<>>]

(***************************************************************************)
(* _context.py                                                             *)
(***************************************************************************)
_is_object_mode(h) == h.mode = "OBJECT"
\* bpy.context.mode.startswith("EDIT")
StartsWithEdit(m) == m \in {"EDIT_MESH"}
_is_edit_mode(h) == StartsWithEdit(h.mode)

\* isinstance(obj, bpy.types.Object) and obj is not None
IsObject(o) == o \in Objects
_require_object(h, o) == IF IsObject(o) THEN h ELSE Raise(h, "InvalidObject")

\* SelectionState(active_name, selected_names)
capture_selection(h) ==
    [active_name |-> h.active,
     selected_names |-> SelectSeq(ObjOrder, LAMBDA o : o \in h.selected)]

RECURSIVE DeselectEach(_, _)
DeselectEach(h, objs) ==
    IF objs = <<>> THEN h
    ELSE DeselectEach(select_set(h, Head(objs), FALSE), Tail(objs))

\* obj.select_set(True) during restoration; the host may refuse it for the
\* mesh (fault "reselect")
reselect(h, o) ==
    IF h.fault = "reselect" /\ o \in MeshObjects
    THEN Raise(Emit(h, "select", o), "RuntimeError")
    ELSE select_set(h, o, TRUE)

\* v1.objects.active = active during restoration; the host may refuse it
\* (fault "reactivate")
reactivate(h, o) ==
    IF h.fault = "reactivate"
    THEN Raise(Emit(h, "active", o), "RuntimeError")
    ELSE set_objects_active(h, o)

\* the loop is not protected: a request that raises ends it
RECURSIVE SelectEach(_, _)
SelectEach(h, names) ==
    IF names = <<>> \/ h.err # "none" THEN h
    ELSE SelectEach(IF Head(names) \in Objects
                    THEN reselect(h, Head(names)) ELSE h,
                    Tail(names))

\* restore_selection runs in a finally clause: an error it raises replaces
\* the one in flight, which otherwise goes on.
restore_selection(h, state) ==
    LET h1 == DeselectEach([h EXCEPT !.err = "none"],
                           SelectSeq(ObjOrder, LAMBDA o : o \in h.selected))
        h2 == SelectEach(h1, state.selected_names)
        h3 == IF h2.err = "none" /\ state.active_name # None
                 /\ state.active_name \in Objects
              THEN reactivate(h2, state.active_name)
              ELSE h2
    IN  IF h3.err # "none" THEN h3
        ELSE [h3 EXCEPT !.err = h.err, !.at = h.at]

\* preserve_selection(): the finally clause, run on every exit path
preserve_selection_exit(h, state) == restore_selection(h, state)

\* set_active(obj): up to its yield
set_active_enter(h, obj) ==
    LET r == _require_object(h, obj) IN
    IF r.err # "none" THEN r
    ELSE set_objects_active(select_set(r, obj, TRUE), obj)

\* Mutant of mode_restore: the request is not wrapped in try/except, so
\* its failure replaces the error in flight.
mode_restore_unprotected(h, prev_mode) ==
    IF prev_mode = "OBJECT" /\ ~_is_object_mode(h)
    THEN mode_set(h, "OBJECT", "exit")
    ELSE h

\* mode(): the finally clause.  A failing request is caught and dropped.
mode_restore(h, prev_mode) ==
    LET try(m) == [mode_set([h EXCEPT !.err = "none"], m, "exit")
                      EXCEPT !.err = h.err, !.at = h.at]
    IN  IF prev_mode = "OBJECT"
        THEN IF ~_is_object_mode(h) THEN try("OBJECT")
             ELSE IF StartsWithEdit(prev_mode)
                  THEN IF ~_is_edit_mode(h) THEN try("EDIT") ELSE h
                  ELSE h
        ELSE h

\* Mutant of mode_exit: the selection is restored before the mode.
mode_exit_selection_first(h, prev_mode, state) ==
    mode_restore(preserve_selection_exit(h, state), prev_mode)

\* mode(): leaving the scope, the mode first, then the selection
mode_exit(h, prev_mode, state) ==
    preserve_selection_exit(mode_restore(h, prev_mode), state)

\* Mutant of mode_force: the request is made without looking at the
\* current mode.
mode_force_unguarded(h, target) ==
    IF target = "OBJECT" THEN mode_set(h, "OBJECT", "enter")
    ELSE IF target = "EDIT" THEN mode_set(h, "EDIT", "enter")
    ELSE Raise(h, "UnsupportedMode")

\* mode(): forcing the target mode, inside set_active(obj)
mode_force(h, target) ==
    IF target = "OBJECT"
    THEN IF ~_is_object_mode(h) THEN mode_set(h, "OBJECT", "enter") ELSE h
    ELSE IF target = "EDIT"
    THEN IF ~_is_edit_mode(h) THEN mode_set(h, "EDIT", "enter") ELSE h
    ELSE Raise(h, "UnsupportedMode")

\* mode(obj, target_mode): up to its yield.  A failure after set_active has
\* been entered unwinds through both finally clauses.
mode_enter(h, obj, target_mode) ==
    LET r == _require_object(h, obj) IN
    IF r.err # "none" THEN r
    ELSE LET state == capture_selection(h)
             f == mode_force(set_active_enter(h, obj), Upper(target_mode))
         IN  IF f.err = "none" THEN f ELSE mode_exit(f, h.mode, state)

edit_mode_enter(h, obj) == mode_enter(h, obj, "EDIT")

(***************************************************************************)
(* Vertex indexing                                                         *)
(***************************************************************************)
\* A Python index into a sequence of n elements: negative indices count
\* from the end; anything outside -n..n-1 raises IndexError.
InRange(i, n) == -n <= i /\ i < n
\* the 1-based position a valid Python index denotes
Pos(i, n) == (IF i < 0 THEN i + n ELSE i) + 1

\* for v in bm.verts: v.co += d
MoveAll(co, d) == [k \in 1..Len(co) |-> VAdd(co[k], d)]

\* Mutant of MoveEach: an index out of range is skipped and the loop goes on.
RECURSIVE MoveEachLenient(_, _, _)
MoveEachLenient(co, idx, d) ==
    IF idx = <<>> THEN [co |-> co, err |-> "none"]
    ELSE IF ~InRange(Head(idx), Len(co)) THEN MoveEachLenient(co, Tail(idx), d)
    ELSE MoveEachLenient([co EXCEPT ![Pos(Head(idx), Len(co))] = VAdd(@, d)],
                         Tail(idx), d)

\* for i in verts: verts_seq[i].co += d   (sequential; stops at the first
\* index out of range, with the earlier vertices already moved)
RECURSIVE MoveEach(_, _, _)
MoveEach(co, idx, d) ==
    IF idx = <<>> THEN [co |-> co, err |-> "none"]
    ELSE IF ~InRange(Head(idx), Len(co)) THEN [co |-> co, err |-> "IndexError"]
    ELSE MoveEach([co EXCEPT ![Pos(Head(idx), Len(co))] = VAdd(@, d)],
                  Tail(idx), d)

\* co[idx] += d on a numpy array: the indexed read raises IndexError before
\* anything is written, and an index listed twice is written once.
FancyAdd(co, idx, d) ==
    IF \E j \in 1..Len(idx) : ~InRange(idx[j], Len(co))
    THEN [co |-> co, err |-> "IndexError"]
    ELSE [co |-> [k \in 1..Len(co) |->
                     IF \E j \in 1..Len(idx) : Pos(idx[j], Len(co)) = k
                     THEN VAdd(co[k], d) ELSE co[k]],
          err |-> "none"]

(***************************************************************************)
(* mesh_session.py                                                         *)
(***************************************************************************)
\* Mutant of MeshSession_init: the object is not validated.
MeshSession_init_unchecked(h, obj) == h

\* MeshSession.__init__
MeshSession_init(h, obj) ==
    IF ~IsObject(obj) THEN Raise(h, "InvalidObject")
    ELSE IF ObjType(obj) # "MESH" THEN Raise(h, "InvalidObject")
    ELSE h

\* bmesh.from_edit_mesh(obj.data): a reference to the live edit buffer.
\* It raises outside edit mode, and when the host refuses it (fault
\* "attach").
from_edit_mesh(h) ==
    IF h.mode # "EDIT_MESH" THEN Raise(Emit(h, "from_edit_mesh", h.mode), "ValueError")
    ELSE IF h.fault = "attach"
    THEN Raise(Emit(h, "from_edit_mesh", h.mode), "RuntimeError")
    ELSE [Emit(h, "from_edit_mesh", h.mode) EXCEPT !.bm = "live"]

\* bmesh.new(); bm.from_mesh(obj.data): a copy of the persisted buffer
from_mesh(h) ==
    IF h.fault = "attach" THEN Raise(Emit(h, "from_mesh", h.mode), "RuntimeError")
    ELSE [Emit(h, "from_mesh", h.mode) EXCEPT !.bm = "temp", !.bmco = h.co]

\* MeshSession.__enter__
MeshSession_enter(h, obj, switch_to_edit) ==
    IF switch_to_edit
    THEN LET e == edit_mode_enter(h, obj) IN
         IF e.err # "none" THEN e ELSE from_edit_mesh(e)
    ELSE from_mesh(h)

\* the vertex positions the session's BMesh holds
BMVerts(h) == IF h.bm = "live" THEN h.edit ELSE h.bmco
SetBMVerts(h, co) ==
    IF h.bm = "live" THEN [h EXCEPT !.edit = co] ELSE [h EXCEPT !.bmco = co]

\* the try block of MeshSession.__exit__: write-back.  A write-back the
\* host refuses raises, and its error replaces the one in flight.
MeshSession_writeback(h) ==
    IF h.bm = "none" THEN h
    ELSE LET w == Emit(h, IF h.bm = "temp" THEN "to_mesh" ELSE "update_edit_mesh",
                       h.mode)
         IN  IF h.fault = "writeback" THEN Raise(w, "RuntimeError")
             ELSE IF h.bm = "temp" THEN [w EXCEPT !.co = h.bmco]
             ELSE w

\* the finally block of MeshSession.__exit__: free, then leave the mode guard
MeshSession_release(h, switch_to_edit, prev_mode, state) ==
    LET f == [(IF h.bm = "temp" THEN Emit(h, "free", h.mode) ELSE h)
                 EXCEPT !.bm = "none", !.bmco = <<>>]
    IN  IF switch_to_edit THEN mode_exit(f, prev_mode, state) ELSE f

\* Mutant of MeshSession_exit: no finally clause, so a failing write-back
\* skips the release and the guard's exit.
MeshSession_exit_no_finally(h, switch_to_edit, prev_mode, state) ==
    LET w == MeshSession_writeback(h) IN
    IF w.err # h.err THEN w
    ELSE MeshSession_release(w, switch_to_edit, prev_mode, state)

\* MeshSession.__exit__
MeshSession_exit(h, switch_to_edit, prev_mode, state) ==
    MeshSession_release(MeshSession_writeback(h), switch_to_edit, prev_mode, state)

\* delta = Vector(direction).normalized() * distance, in the given space
\* (both backends and mesh_ops.move_mesh compute it this way)
LocalDelta(m, direction, distance, sp) ==
    LET delta == VScale(Normalized(direction), distance) IN
    IF sp = "WORLD" THEN WorldToLocal(m, delta) ELSE delta

\* MeshSession.move_vertices
move_vertices(h, obj, direction, distance, space, verts) ==
    IF h.bm = "none" THEN Raise(h, "NotEntered")
    ELSE IF distance = 0 THEN h
    ELSE IF Length(direction) = 0 THEN h
    ELSE LET sp == Upper(space) IN
         IF sp # "WORLD" /\ sp # "LOCAL" THEN Raise(h, "InvalidSpace")
         ELSE LET d == LocalDelta(matrix_world(h, obj), direction, distance, sp)
                  r == IF ~verts.given
                       THEN [co |-> MoveAll(BMVerts(h), d), err |-> "none"]
                       ELSE MoveEach(BMVerts(h), verts.idx, d)
              IN  Raise(SetBMVerts(h, r.co), r.err)

\* The arguments of a call; a scope's body is described by the fields body
\* (what it does) and raises (whether it ends by raising); fault and xform
\* are what the host does and reports during the call.
NoVerts == [given |-> FALSE, idx |-> <<>>]
Verts(s) == [given |-> TRUE, idx |-> s]

NoCall ==
    [op |-> "none", obj |-> None, direction |-> ZeroVec, distance |-> 0,
     space |-> "LOCAL", backend |-> "AUTO", verts |-> NoVerts,
     target_mode |-> "OBJECT", switch_to_edit |-> FALSE,
     body |-> "pass", raises |-> FALSE, fault |-> "none",
     xform |-> DefaultXform]

\* the body of a scope: what the caller does between entry and exit
ScopeBody(h, c) ==
    LET b == CASE c.body = "select" ->
                    set_objects_active(select_set(h, "Lamp", TRUE), "Lamp")
               [] c.body = "deselect" ->
                    DeselectEach(h, SelectSeq(ObjOrder, LAMBDA o : o \in h.selected))
               [] c.body = "move" ->
                    move_vertices(h, c.obj, c.direction, c.distance, c.space, c.verts)
               [] OTHER -> h
    IN  IF c.raises /\ b.err = "none" THEN Raise(b, "BodyError") ELSE b

\* the body `sess.move_vertices(direction=, distance=, verts=, space=)`
MoveBody(obj, direction, distance, space, verts) ==
    [NoCall EXCEPT !.body = "move", !.obj = obj, !.direction = direction,
                   !.distance = distance, !.space = space, !.verts = verts]

\* with MeshSession(obj, switch_to_edit=...) as sess: <body c>
MeshSession_scope(h, obj, switch_to_edit, c) ==
    LET i == MeshSession_init(h, obj) IN
    IF i.err # "none" THEN i
    ELSE LET e == MeshSession_enter(i, obj, switch_to_edit) IN
         IF e.err # "none" THEN e
         ELSE MeshSession_exit(ScopeBody(e, c), switch_to_edit, h.mode,
                               capture_selection(h))

\* Mutant of move_mesh_fast: the direct-buffer function goes through the
\* edit-mode session.
move_mesh_fast_by_session(h, obj, direction, distance, space, verts) ==
    MeshSession_scope(h, obj, TRUE,
                      MoveBody(obj, direction, distance, space, verts))

(***************************************************************************)
(* mesh/data_ops.py                                                        *)
(***************************************************************************)
move_mesh_fast(h, obj, direction, distance, space, verts) ==
    IF obj = None \/ ObjType(obj) # "MESH" THEN Raise(h, "InvalidObject")
    ELSE IF h.mode = "EDIT_MESH" THEN Raise(h, "UnsafeBackend")
    ELSE IF distance = 0 THEN h
    ELSE IF Length(direction) = 0 THEN h
    ELSE LET sp == Upper(space) IN
         IF sp # "WORLD" /\ sp # "LOCAL" THEN Raise(h, "InvalidSpace")
         ELSE LET d == LocalDelta(matrix_world(h, obj), direction, distance, sp)
                  g == Emit(h, "foreach_get", h.mode)
                  r == IF ~verts.given
                       THEN [co |-> MoveAll(g.co, d), err |-> "none"]
                       ELSE FancyAdd(g.co, verts.idx, d)
              IN  IF r.err # "none" THEN Raise(g, r.err)
                  ELSE [Emit(g, "foreach_set", g.mode) EXCEPT !.co = r.co]

(***************************************************************************)
(* mesh/ops.py                                                             *)
(***************************************************************************)
\* Mutant of AutoUsesFast: the decision of the first AUTO call is kept.
AutoUsesFastCached(h) ==
    IF autoRoute = "none" THEN h.mode # "EDIT_MESH" ELSE autoRoute = "fast"

\* Mutant of FastRefused: the edit-mode check of FAST is missing.
FastNeverRefused(h) == FALSE

\* AUTO: the direct-buffer strategy is used only outside edit mode
AutoUsesFast(h) == h.mode # "EDIT_MESH"

\* FAST is refused in edit mode
FastRefused(h) == h.mode = "EDIT_MESH"

move_mesh(h, obj, direction, distance, space, backend, verts) ==
    IF backend = "FAST"
    THEN IF FastRefused(h) THEN Raise(h, "UnsafeBackend")
         ELSE move_mesh_fast([h EXCEPT !.route = "fast"],
                             obj, direction, distance, space, verts)
    ELSE IF backend = "AUTO" /\ AutoUsesFast(h)
    THEN move_mesh_fast([h EXCEPT !.route = "fast"],
                        obj, direction, distance, space, verts)
    ELSE MeshSession_scope([h EXCEPT !.route = "bmesh"], obj, TRUE,
                           MoveBody(obj, direction, distance, space, verts))

(***************************************************************************)
(* mesh_ops.py                                                             *)
(***************************************************************************)
_require_mesh_object(h, obj) ==
    IF ~IsObject(obj) THEN Raise(h, "InvalidObject")
    ELSE IF ObjType(obj) # "MESH" THEN Raise(h, "InvalidObject")
    ELSE h

\* _move_bmesh: the vertices are looked up first, then translated together
_move_bmesh(h, delta_local, verts) ==
    LET r == IF ~verts.given
             THEN [co |-> MoveAll(h.edit, delta_local), err |-> "none"]
             ELSE FancyAdd(h.edit, verts.idx, delta_local)
    IN  Raise([h EXCEPT !.edit = r.co], r.err)

\* mesh_ops.move_mesh
mesh_ops_move_mesh(h, obj, direction, distance, space, verts) ==
    LET q == _require_mesh_object(h, obj) IN
    IF q.err # "none" THEN q
    ELSE IF Length(direction) = 0 THEN h
    ELSE LET sp == Upper(space) IN
         IF sp \notin {"LOCAL", "WORLD"} THEN Raise(h, "InvalidSpace")
         ELSE LET delta == LocalDelta(matrix_world(h, obj), direction, distance, sp)
                  state == capture_selection(h)
                  e == edit_mode_enter(h, obj)
              IN  IF e.err # "none" THEN preserve_selection_exit(e, state)
                  ELSE LET a == from_edit_mesh(e)
                           m == IF a.err # "none" THEN a
                                ELSE _move_bmesh(a, delta, verts)
                           u == IF m.err # "none" THEN m
                                ELSE Emit(m, "update_edit_mesh", m.mode)
                           x == mode_exit([u EXCEPT !.bm = "none"], h.mode, state)
                       IN  preserve_selection_exit(x, state)

(***************************************************************************)
(* Scopes entered by a caller, with the caller's body between entry and     *)
(* exit                                                                    *)
(***************************************************************************)
\* with preserve_selection(): <body c>
preserve_selection_scope(h, c) ==
    preserve_selection_exit(ScopeBody(h, c), capture_selection(h))

\* with mode(obj, target_mode): <body c>
mode_scope(h, obj, target_mode, c) ==
    LET e == mode_enter(h, obj, target_mode) IN
    IF e.err # "none" THEN e
    ELSE mode_exit(ScopeBody(e, c), h.mode, capture_selection(h))

(***************************************************************************)
(* Calls: the arguments a caller passes                                    *)
(***************************************************************************)
Directions == {ZeroVec, Vec(0, 3, 0)}
Distances == {0, 2}
Backends == {"AUTO", "BMESH", "FAST"}
\* the host request that fails in a call: a mode request on entry or on
\* exit of a guard, attaching the session's BMesh, the session's
\* write-back, or a request of the selection's restoration
Faults ==
    {"none", "enter", "exit", "attach", "writeback", "reselect", "reactivate"}
\* verts=: absent, one vertex, a vertex listed twice, an index out of range
\* between two valid ones and before a valid one, and a negative index
VertArgs ==
    {NoVerts, Verts(<<0>>), Verts(<<1, 1>>), Verts(<<0, NVerts, 1>>),
     Verts(<<NVerts, 0>>), Verts(<<-1>>)}
Args == Objects \cup {None}
TargetModes == {"OBJECT", "EDIT", "edit", "SCULPT"}

\* mesh.move_mesh(obj, direction, distance, space=, backend=, verts=):
\* every backend, distance and vertex argument in both spaces; a zero
\* direction and an unknown space with every backend and distance; an
\* object that is no mesh, or None; a host that refuses a mode request; and
\* a world-space move of the mesh under each of its other transforms
MoveMeshCalls ==
    {[NoCall EXCEPT !.op = "move_mesh", !.obj = "Cube", !.direction = Vec(0, 3, 0),
                    !.distance = t[1], !.space = t[2], !.backend = t[3],
                    !.verts = t[4]] :
        t \in Distances \X {"LOCAL", "world"} \X Backends \X VertArgs}
    \cup
    {[NoCall EXCEPT !.op = "move_mesh", !.obj = "Cube", !.direction = t[1],
                    !.distance = t[2], !.space = t[3], !.backend = t[4]] :
        t \in {<<ZeroVec, d, "LOCAL", b>> : d \in Distances, b \in Backends}
              \cup {<<Vec(0, 3, 0), d, "VIEW", b>> : d \in Distances, b \in Backends}}
    \cup
    {[NoCall EXCEPT !.op = "move_mesh", !.obj = t[1], !.backend = t[2],
                    !.direction = Vec(0, 3, 0), !.distance = t[3]] :
        t \in {"Lamp", None} \X Backends \X Distances}
    \cup
    {[NoCall EXCEPT !.op = "move_mesh", !.obj = "Cube", !.backend = t[1],
                    !.direction = Vec(0, 3, 0), !.distance = t[2],
                    !.fault = t[3]] :
        t \in Backends \X Distances \X {"enter", "exit"}}
    \cup
    {[NoCall EXCEPT !.op = "move_mesh", !.obj = "Cube", !.backend = t[1],
                    !.direction = Vec(0, 3, 0), !.distance = 2,
                    !.space = "WORLD", !.xform = t[2]] :
        t \in Backends \X (Transforms \ {DefaultXform})}

\* ebpy.move_mesh(obj, direction, distance, space=, verts=)  (mesh_ops.py)
MeshOpsCalls ==
    {[NoCall EXCEPT !.op = "mesh_ops_move_mesh", !.obj = "Cube", !.direction = t[1],
                    !.distance = t[2], !.space = t[3], !.verts = t[4]] :
        t \in Directions \X Distances \X {"LOCAL", "VIEW"}
              \X {NoVerts, Verts(<<0, NVerts, 1>>)}}
    \cup
    {[NoCall EXCEPT !.op = "mesh_ops_move_mesh", !.obj = o,
                    !.direction = Vec(0, 3, 0), !.distance = 2] :
        o \in {"Lamp", None}}

\* with preserve_selection(): <body>
SelectionCalls ==
    {[NoCall EXCEPT !.op = "preserve_selection", !.body = t[1], !.raises = t[2],
                    !.fault = t[3]] :
        t \in {"pass", "select", "deselect"} \X BOOLEAN
              \X {"none", "reselect", "reactivate"}}

\* with mode(obj, target_mode): <body>
ModeCalls ==
    {[NoCall EXCEPT !.op = "mode", !.obj = t[1], !.target_mode = t[2],
                    !.raises = t[3], !.fault = t[4]] :
        t \in {"Cube", None} \X TargetModes \X BOOLEAN \X {"none", "enter", "exit"}}

\* with MeshSession(obj, switch_to_edit=): <body>
SessionCalls ==
    {[NoCall EXCEPT !.op = "MeshSession", !.obj = t[1], !.switch_to_edit = t[2],
                    !.body = t[3], !.raises = t[4],
                    !.direction = Vec(0, 3, 0), !.distance = 2,
                    !.verts = t[5]] :
        t \in Args \X BOOLEAN \X {"pass", "move"} \X BOOLEAN
              \X {NoVerts, Verts(<<0, NVerts, 1>>)}}
    \cup
    {[NoCall EXCEPT !.op = "MeshSession", !.obj = "Cube", !.switch_to_edit = t[1],
                    !.body = "move", !.raises = t[2],
                    !.direction = Vec(0, 3, 0), !.distance = 2,
                    !.fault = t[3]] :
        t \in BOOLEAN \X BOOLEAN \X {"enter", "exit", "attach", "writeback"}}

Calls == MoveMeshCalls \cup MeshOpsCalls \cup SelectionCalls \cup ModeCalls
         \cup SessionCalls

(***************************************************************************)
(* The state machine                                                       *)
(***************************************************************************)
NoRes == [err |-> "none", log |-> <<>>, at |-> 0, route |-> "none"]

\* the persisted vertex buffer of the mesh at start
InitCo == [k \in 1..NVerts |-> Vec(k, 0, 0)]
\* a live edit buffer holding an edit not yet flushed
UnflushedCo == [InitCo EXCEPT ![1] = VAdd(@, Vec(0, 0, 1))]

\* Host states: in edit mode the active object is the mesh being edited.
InitWorlds ==
    {[mode |-> "OBJECT", active |-> a, selected |-> s, co |-> InitCo, edit |-> <<>>] :
        a \in Objects \cup {None}, s \in SUBSET Objects}
    \cup
    {[mode |-> "EDIT_MESH", active |-> "Cube", selected |-> s, co |-> InitCo, edit |-> e] :
        s \in SUBSET Objects, e \in {InitCo, UnflushedCo}}

Init ==
    /\ host \in InitWorlds
    /\ pc = "idle"
    /\ call = NoCall
    /\ pre = host
    /\ res = NoRes
    /\ ncalls = 0
    /\ autoRoute = "none"

\* a caller makes a call
Invoke ==
    /\ pc = "idle"
    /\ ncalls < MaxCalls
    /\ \E c \in Calls : call' = c
    /\ pc' = "called"
    /\ pre' = host
    /\ res' = NoRes
    /\ ncalls' = ncalls + 1
    /\ UNCHANGED <<host, autoRoute>>

\* the pending call runs to its end: r is the call state at its end
Finish(r) ==
    /\ host' = World(r)
    /\ res' = [err |-> r.err, log |-> r.log, at |-> r.at, route |-> r.route]
    /\ pc' = "returned"
    /\ UNCHANGED <<call, pre, ncalls, autoRoute>>

Do_move_mesh ==
    /\ pc = "called" /\ call.op = "move_mesh"
    /\ Finish(move_mesh(Begin(host, call.fault, call.xform), call.obj, call.direction,
                        call.distance, call.space, call.backend, call.verts))

Do_mesh_ops_move_mesh ==
    /\ pc = "called" /\ call.op = "mesh_ops_move_mesh"
    /\ Finish(mesh_ops_move_mesh(Begin(host, call.fault, call.xform), call.obj, call.direction,
                                 call.distance, call.space, call.verts))

Do_preserve_selection ==
    /\ pc = "called" /\ call.op = "preserve_selection"
    /\ Finish(preserve_selection_scope(Begin(host, call.fault, call.xform), call))

Do_mode ==
    /\ pc = "called" /\ call.op = "mode"
    /\ Finish(mode_scope(Begin(host, call.fault, call.xform), call.obj, call.target_mode,
                         call))

Do_MeshSession ==
    /\ pc = "called" /\ call.op = "MeshSession"
    /\ Finish(MeshSession_scope(Begin(host, call.fault, call.xform), call.obj,
                                call.switch_to_edit, call))

\* control is back at the caller, which drops the call's record
Resume ==
    /\ pc = "returned"
    /\ pc' = "idle"
    /\ call' = NoCall
    /\ pre' = host
    /\ res' = NoRes
    /\ autoRoute' = IF call.op = "move_mesh" /\ call.backend = "AUTO"
                       /\ res.route # "none"
                    THEN res.route ELSE autoRoute
    /\ UNCHANGED <<host, ncalls>>

\* the user toggles edit mode in the host (Tab) between calls
UserToggleMode ==
    /\ pc = "idle"
    /\ \/ /\ host.mode = "OBJECT"
          /\ host.active \in MeshObjects
          /\ host' = [host EXCEPT !.mode = "EDIT_MESH", !.edit = host.co]
       \/ /\ host.mode = "EDIT_MESH"
          /\ host' = [host EXCEPT !.mode = "OBJECT", !.co = host.edit, !.edit = <<>>]
    /\ pre' = host'
    /\ UNCHANGED <<pc, call, res, ncalls, autoRoute>>

Next ==
    \/ Invoke
    \/ Do_move_mesh
    \/ Do_mesh_ops_move_mesh
    \/ Do_preserve_selection
    \/ Do_mode
    \/ Do_MeshSession
    \/ Resume
    \/ UserToggleMode

Spec == Init /\ [][Next]_vars

\* the host's own invariant: the live edit buffer exists exactly in edit mode
HostOK ==
    /\ host.mode \in {"OBJECT", "EDIT_MESH"}
    /\ host.mode = "EDIT_MESH" => Len(host.edit) = NVerts
    /\ host.mode = "OBJECT" => host.edit = <<>>
    /\ Len(host.co) = NVerts

(***************************************************************************)
(* Properties                                                              *)
(***************************************************************************)
\* a call has run to its end and its record is still at hand
Returned(op) == pc = "returned" /\ call.op = op
\* the host honoured every request of the call
Honoured == call.fault = "none"
\* the vertex positions the host shows for the mesh
Positions(w) == IF w.mode = "EDIT_MESH" THEN w.edit ELSE w.co
\* the host requests of a kind among the returned call's requests
Requests(kinds) == {i \in 1..Len(res.log) : res.log[i].ev \in kinds}
SelectionRequests == Requests({"select", "deselect", "active"})
ModeRequests == Requests({"mode_set"})
\* mode(): the target is one of the two recognized modes
Recognized(t) == Upper(t) \in {"OBJECT", "EDIT"}
\* the host mode a recognized target names
TargetOf(t) == IF Upper(t) = "EDIT" THEN "EDIT_MESH" ELSE "OBJECT"

\* C1: after a mode() scope on an object, with a recognized target mode and
\* a host that honours every request, the host's mode is the mode it had
\* when the scope was entered, whether the body returned or raised.
C1_ModeGuardRestoresMode ==
    (Returned("mode") /\ IsObject(call.obj) /\ Recognized(call.target_mode)
        /\ Honoured)
    => host.mode = pre.mode

\* the scope's body (or the move inside it) raised
BodyRaised == res.err \in {"BodyError", "IndexError", "InvalidSpace"}
GuardedOps == {"preserve_selection", "mode", "MeshSession", "move_mesh"}

\* C2: after any guarded scope whose body raised, on a host that honours
\* every request, the active object and the selected objects are those of
\* before the scope, whatever they were.
C2_GuardRestoresSelection ==
    (pc = "returned" /\ call.op \in GuardedOps /\ BodyRaised /\ Honoured)
    => (host.active = pre.active /\ host.selected = pre.selected)

\* C3: a call with backend AUTO takes the session strategy exactly when the
\* host is in edit mode when the call is made, and the direct-buffer
\* strategy otherwise, whatever route earlier calls took.
C3_AutoRoutedByCurrentMode ==
    (Returned("move_mesh") /\ call.backend = "AUTO")
    => /\ res.route = "bmesh" <=> pre.mode = "EDIT_MESH"
       /\ res.route = "fast" <=> pre.mode # "EDIT_MESH"

\* C3 witness: an AUTO call routed to the session after an earlier AUTO call
\* was routed to the direct buffer.
C3_Witness ==
    /\ Returned("move_mesh") /\ call.backend = "AUTO"
    /\ autoRoute = "fast" /\ res.route = "bmesh" /\ pre.mode = "EDIT_MESH"

\* C4: forcing FAST while the host is in edit mode fails with the
\* unsafe-backend error, enters no strategy, issues no host request and
\* leaves mode, selection, active object and every vertex as they were.
C4_FastRefusedInEditMode ==
    (Returned("move_mesh") /\ call.backend = "FAST" /\ pre.mode = "EDIT_MESH")
    => /\ res.err = "UnsafeBackend"
       /\ res.route = "none"
       /\ res.log = <<>>
       /\ host = pre

\* C4 witness: a forced FAST call on the mesh, made in edit mode, has
\* returned.
C4_Witness ==
    /\ Returned("move_mesh") /\ call.backend = "FAST" /\ call.obj = "Cube"
    /\ pre.mode = "EDIT_MESH" /\ call.distance # 0 /\ res.err = "UnsafeBackend"

\* every index of the call's verts= is in range
IndicesValid == \A j \in 1..Len(call.verts.idx) : InRange(call.verts.idx[j], NVerts)
\* no index of the call's verts= is listed twice
IndicesUnique ==
    \A i, j \in 1..Len(call.verts.idx) :
        Pos(call.verts.idx[i], NVerts) = Pos(call.verts.idx[j], NVerts) => i = j
\* the returned call's arguments, run from the state before it with backend b
RunWith(b) ==
    move_mesh(Begin(pre, "none", call.xform), call.obj, call.direction, call.distance,
              call.space, b, call.verts)

\* C5: outside edit mode, FAST and BMESH given the same arguments (with
\* every index in range, possibly listed more than once) leave the same
\* vertex positions.
C5_BackendsAgree ==
    (Returned("move_mesh") /\ call.obj = "Cube" /\ pre.mode # "EDIT_MESH"
        /\ Honoured /\ IndicesValid)
    => Positions(World(RunWith("FAST"))) = Positions(World(RunWith("BMESH")))

\* the call moves nothing: zero distance or zero-length direction
ZeroMove == call.distance = 0 \/ call.direction = ZeroVec

\* C6: a move with zero distance or zero-length direction leaves the vertex
\* buffers, the mode, the active object and the selected objects as they
\* were, for every backend and host state.
C6_ZeroMoveIsNoOp ==
    (pc = "returned" /\ call.op \in {"move_mesh", "mesh_ops_move_mesh"}
        /\ call.obj = "Cube" /\ ZeroMove /\ Honoured)
    => host = pre

\* the delta of the returned call, in the mesh's local frame
Delta == LocalDelta(call.xform, call.direction, call.distance, Upper(call.space))
\* the positions of the targeted vertices: all of them without verts=,
\* else those the in-range indices denote
Targeted ==
    IF ~call.verts.given THEN 1..NVerts
    ELSE {Pos(call.verts.idx[j], NVerts) :
            j \in {i \in 1..Len(call.verts.idx) : InRange(call.verts.idx[i], NVerts)}}
\* the positions listed before the first index out of range
PrefixTargets ==
    IF ~call.verts.given THEN 1..NVerts
    ELSE {Pos(call.verts.idx[j], NVerts) :
            j \in {i \in 1..Len(call.verts.idx) :
                     \A k \in 1..i : InRange(call.verts.idx[k], NVerts)}}
\* exactly the vertices of S have received the delta
MovedExactly(S) ==
    Positions(host) = [k \in 1..NVerts |->
                         IF k \in S THEN VAdd(Positions(pre)[k], Delta)
                         ELSE Positions(pre)[k]]
NoneMoved == Positions(host) = Positions(pre)
\* a move of the mesh that gets as far as the vertices
EffectiveMove ==
    /\ Returned("move_mesh") /\ call.obj = "Cube" /\ Honoured
    /\ res.route # "none"
    /\ ~ZeroMove /\ Upper(call.space) \in {"LOCAL", "WORLD"}
    /\ IndicesUnique

\* C7 (as claimed): on both backends, for any subset, also one with an index
\* out of range at any position, either every targeted vertex has received
\* the delta or no vertex has changed.
C7_MoveIsAtomic == EffectiveMove => (MovedExactly(Targeted) \/ NoneMoved)

\* C7 (amended): the direct-buffer backend is all-or-nothing for any subset;
\* the session backend is all-or-nothing when every index is in range, and
\* with an index out of range it fails with exactly the vertices listed
\* before that index moved.
C7_AtomicUnlessIndexFailsMidway ==
    EffectiveMove =>
        /\ res.err = (IF IndicesValid THEN "none" ELSE "IndexError")
        /\ IF res.route = "fast"
           THEN IF IndicesValid THEN MovedExactly(Targeted) ELSE NoneMoved
           ELSE MovedExactly(PrefixTargets)

\* C7 witness: a session-backend move failed on an index out of range with
\* an earlier vertex already moved.
C7_Witness ==
    /\ EffectiveMove /\ res.route = "bmesh" /\ res.err = "IndexError"
    /\ ~NoneMoved /\ ~MovedExactly(Targeted)

\* C8: a move routed to the direct buffer outside edit mode issues no
\* mode request and no selection or active-object request during the call,
\* and leaves mode, active object and selected objects as they were.
C8_FastPathTouchesOnlyVertices ==
    (Returned("move_mesh") /\ res.route = "fast" /\ pre.mode # "EDIT_MESH")
    => /\ ModeRequests = {}
       /\ SelectionRequests = {}
       /\ host.mode = pre.mode
       /\ host.active = pre.active
       /\ host.selected = pre.selected

\* C8 witness: a move through the direct buffer has changed the persisted
\* vertices.
C8_Witness ==
    /\ Returned("move_mesh") /\ res.route = "fast" /\ res.err = "none"
    /\ pre.mode # "EDIT_MESH" /\ host.co # pre.co

MoveOps == {"move_mesh", "mesh_ops_move_mesh"}

\* C9 (as claimed): a move given None or an object that is no mesh fails
\* with the invalid-object error for every backend and host mode, having
\* issued no host request and changed nothing.
C9_InvalidObjectRejected ==
    (pc = "returned" /\ call.op \in MoveOps /\ call.obj \notin MeshObjects)
    => /\ res.err = "InvalidObject"
       /\ res.log = <<>>
       /\ host = pre

\* C9 (amended): such a move fails having issued no host request and
\* changed nothing; the error is the invalid-object error, except that
\* FAST forced in edit mode is refused first, with the unsafe-backend error.
C9_InvalidObjectTouchesNothing ==
    (pc = "returned" /\ call.op \in MoveOps /\ call.obj \notin MeshObjects)
    => /\ res.err = (IF call.backend = "FAST" /\ pre.mode = "EDIT_MESH"
                     THEN "UnsafeBackend" ELSE "InvalidObject")
       /\ res.log = <<>>
       /\ host = pre

\* C9 witness: the session backend has rejected an object that is no mesh.
C9_Witness ==
    /\ Returned("move_mesh") /\ call.obj = "Lamp" /\ call.backend = "BMESH"
    /\ res.route = "bmesh" /\ res.err = "InvalidObject"

\* C10: a mode() scope whose target is the mode the host is already in
\* issues no mode request, on entry or on exit, for OBJECT and for EDIT.
C10_NoSwitchWhenAlreadyInTarget ==
    (Returned("mode") /\ IsObject(call.obj) /\ Recognized(call.target_mode)
        /\ TargetOf(call.target_mode) = pre.mode)
    => ModeRequests = {}

\* C10 witness: a mode() scope targeting EDIT was entered and left in edit
\* mode.
C10_Witness ==
    /\ Returned("mode") /\ call.obj = "Cube" /\ Upper(call.target_mode) = "EDIT"
    /\ pre.mode = "EDIT_MESH" /\ res.err = "none" /\ SelectionRequests # {}

\* the space token of the returned call is neither local nor world
UnknownSpace == Upper(call.space) \notin {"LOCAL", "WORLD"}

\* C11: a move of the mesh with non-zero direction and distance and a space
\* token other than local or world fails with the invalid-space error on
\* every backend, having issued no mode request and no selection or
\* active-object request, and with every vertex where it was.
C11_UnknownSpaceRejectedBeforeGuards ==
    (Returned("move_mesh") /\ call.obj = "Cube" /\ ~ZeroMove /\ UnknownSpace
        /\ Honoured)
    => /\ res.err = "InvalidSpace"
       /\ ModeRequests = {}
       /\ SelectionRequests = {}
       /\ Positions(host) = Positions(pre)

\* the requests issued before the error the caller received was raised
RequestsBeforeError(kinds) == {i \in Requests(kinds) : i <= res.at}

\* C12: a mode() scope on an object with a target mode that is not one of
\* the two recognized modes fails with the unsupported-mode error, and no
\* select, active-object or mode request was issued before it was raised.
C12_UnknownModeRejectedBeforeTouch ==
    (Returned("mode") /\ IsObject(call.obj) /\ ~Recognized(call.target_mode))
    => /\ res.err = "UnsupportedMode"
       /\ RequestsBeforeError({"select", "deselect", "active", "mode_set"}) = {}

\* a move of the mesh in the local frame that returned without error
LocalMoveDone ==
    /\ Returned("move_mesh") /\ call.obj = "Cube" /\ Honoured
    /\ ~ZeroMove /\ Upper(call.space) = "LOCAL"
    /\ res.route # "none" /\ res.err = "none"
\* normalize(direction) * distance
UnitTimesDistance == VScale(Normalized(call.direction), call.distance)

\* C13: after a move with space local, non-zero direction and distance, on
\* either backend, every targeted vertex is where it was plus
\* normalize(direction) * distance and every other vertex is where it was;
\* without verts= every vertex is targeted.
C13_LocalMoveDisplacesTargets ==
    LocalMoveDone =>
        Positions(host) =
            [k \in 1..NVerts |->
                IF k \in Targeted THEN VAdd(Positions(pre)[k], UnitTimesDistance)
                ELSE Positions(pre)[k]]

\* the positions in the returned call's request log of the requests of
\* a session: attaching the BMesh, writing it back, freeing it
Attached == Requests({"from_edit_mesh", "from_mesh"})
WrittenBack == Requests({"to_mesh", "update_edit_mesh"})
Freed == Requests({"free"})
\* the requests of the guard's exit: mode and selection requests issued
\* after the BMesh was attached (the bodies drawn for a session issue none)
GuardExit ==
    {i \in Requests({"mode_set", "select", "deselect", "active"}) :
        \A a \in Attached : a < i}
\* a session scope whose entry succeeded (the BMesh was attached, and the
\* error the caller received, if any, was not raised by that request) has
\* been left
SessionLeft ==
    /\ Returned("MeshSession") /\ Attached # {}
    /\ res.err # "none" => res.at \notin Attached

ModeGuardOps == {"mode", "MeshSession", "move_mesh", "mesh_ops_move_mesh"}
\* the requests that force the call's object to be the active one
Activations == {i \in Requests({"active"}) : res.log[i].arg = call.obj}
\* the requests that start the restoration of the selection (the bodies
\* drawn for these calls issue no selection request of their own)
Deselections == Requests({"deselect"})

\* the entry of a session was abandoned: the error the caller received is
\* the one raised by __enter__'s request to attach the BMesh, and no exit
\* has run
EntryAbandoned ==
    /\ call.op \in {"MeshSession", "move_mesh"}
    /\ res.err # "none" /\ res.at \in Attached

\* C15: in every call that enters a mode guard, on every exit path, each
\* mode request comes after the request that made the object active and
\* before every request of the selection's restoration; and whenever the
\* guard is left, the selection is restored, and a scope that took the
\* host from OBJECT to edit mode requests the mode back before that.
C15_SelectionWrapsMode ==
    (pc = "returned" /\ call.op \in ModeGuardOps)
    => /\ \A m \in ModeRequests : \E a \in Activations : a < m
       /\ \A m \in ModeRequests : \A d \in Deselections : m < d
       /\ (Activations # {} /\ ~EntryAbandoned) => Deselections # {}
       /\ \A m \in ModeRequests :
            (res.log[m].arg = "EDIT" /\ call.fault # "enter" /\ ~EntryAbandoned)
            => \E x \in ModeRequests :
                  /\ m < x /\ res.log[x].arg = "OBJECT"
                  /\ \A d \in Deselections : x < d

\* C15 witness: a mode() scope entered from OBJECT whose body raised was
\* left with the mode requested back and then the selection restored.
C15_Witness ==
    /\ Returned("mode") /\ call.obj = "Cube" /\ Upper(call.target_mode) = "EDIT"
    /\ pre.mode = "OBJECT" /\ res.err = "BodyError"
    /\ Cardinality(ModeRequests) = 2 /\ Deselections # {}
    /\ host.mode = "OBJECT"

\* C16: when the host refuses the mode request of a mode() scope's exit,
\* the caller receives the body's error if the body raised and no error if
\* it did not, and the selection is restored all the same: the selected
\* objects are those of before the scope, and so is the active object if
\* there was one.
C16_ExitModeFailureSwallowed ==
    (Returned("mode") /\ IsObject(call.obj) /\ Recognized(call.target_mode)
        /\ call.fault = "exit")
    => /\ res.err = (IF call.raises THEN "BodyError" ELSE "none")
       /\ Deselections # {}
       /\ host.selected = pre.selected
       /\ pre.active # None => host.active = pre.active

\* C16 witness: the exit's mode request was refused after the body raised,
\* leaving the host in edit mode, and the caller received the body's error.
C16_Witness ==
    /\ Returned("mode") /\ call.obj = "Cube" /\ call.fault = "exit"
    /\ pre.mode = "OBJECT" /\ Upper(call.target_mode) = "EDIT"
    /\ Cardinality(ModeRequests) = 2 /\ host.mode = "EDIT_MESH"
    /\ res.err = "BodyError" /\ pre.selected = {"Lamp"} /\ host.selected = {"Lamp"}

\* the host refuses a request of the selection's restoration
RestoreFault == call.fault \in {"reselect", "reactivate"}

\* C17: leaving a preserve_selection() scope never raises: when the host
\* refuses to re-select the mesh or to re-assign the active object, the
\* caller receives the body's error if the body raised and no error if it
\* did not, every other object selected before is selected again, and
\* after a refused re-selection the active object is still re-assigned.
C17_SelectionExitNeverRaises ==
    (Returned("preserve_selection") /\ RestoreFault)
    => /\ res.err = (IF call.raises THEN "BodyError" ELSE "none")
       /\ \A o \in pre.selected :
            (call.fault = "reselect" /\ o \in MeshObjects) \/ o \in host.selected
       /\ (call.fault = "reselect" /\ pre.active # None)
            => host.active = pre.active

\* a world-space move of the mesh that returned without error
WorldMoveDone ==
    /\ Returned("move_mesh") /\ call.obj = "Cube" /\ Honoured
    /\ ~ZeroMove /\ Upper(call.space) = "WORLD"
    /\ res.route # "none" /\ res.err = "none"
\* the returned call's arguments, run from the state before it on a mesh
\* whose world transform is m
RunUnder(m) ==
    move_mesh(Begin(pre, "none", m), call.obj, call.direction, call.distance,
              call.space, call.backend, call.verts)

\* C18: a world-space move leaves the vertices where the same move would
\* leave them on an object whose world transform has the same rotation
\* and any other translation or scale.
C18_WorldDeltaDependsOnRotationOnly ==
    WorldMoveDone =>
        \A m \in Transforms :
            m.rot = call.xform.rot
            => Positions(World(RunUnder(m))) = Positions(host)

\* C19: when the entry of a session with switch_to_edit fails after its
\* mode guard was entered (the host refuses to attach the live BMesh), the
\* host's mode, active object and selected objects are, when the caller
\* receives the error, those of before the entry.
C19_FailedEntryRestoresHost ==
    (Returned("MeshSession") /\ call.obj = "Cube" /\ call.switch_to_edit
        /\ call.fault = "attach" /\ res.err = "RuntimeError")
    => /\ host.mode = pre.mode
       /\ host.active = pre.active
       /\ host.selected = pre.selected

\* the requests that write the persisted vertex buffer directly: the bulk
\* write of the direct-buffer backend and the write-back of a temporary
\* BMesh; each is logged with the host's mode when it was made
DirectWrites == Requests({"foreach_set", "to_mesh"})

\* C20: every direct write to the persisted vertex buffer made during a
\* call is made while the host is not in edit mode.
C20_DirectWritesOutsideEditMode ==
    pc = "returned" => \A i \in DirectWrites : res.log[i].arg # "EDIT_MESH"

====
